---- MODULE Spec2Model ----
(***************************************************************************)
(* Decision engine of the Smart Agriculture Platform                       *)
(* (src/decision_engine.py): crop profile registry, profile resolution,    *)
(* the irrigation, fertilizer and alert rules, and the engine facade.      *)
(*                                                                         *)
(* Number representation.                                                  *)
(*   soil moisture : integer count of 1/MUnit percent (MUnit = 2 * Fine)   *)
(*   temperature   : integer degrees Celsius                               *)
(*   humidity      : integer percent                                       *)
(*   amount        : integer count of 1/100 litre per m2 (the code rounds  *)
(*                   the amount to 2 decimals)                             *)
(*   base_amount   : exact fraction <<numerator, denominator>> in l/m2     *)
(* With Fine = 64 every reading of the grid is a binary fraction, so the   *)
(* code's float comparisons against the thresholds agree with the exact    *)
(* comparisons used here.  The products with 0.05 and 1.2 are not exact in *)
(* binary floating point: where the exact product is a decimal tie         *)
(* (x.xx5), the float the code rounds lies just above or just below the    *)
(* tie.  The variable fperr records that direction for each input where it *)
(* matters; an analysis of such an input may take either direction the     *)
(* first time and keeps it afterwards, so both directions are covered.     *)
(***************************************************************************)
EXTENDS Integers, Sequences, FiniteSets, TLC

VARIABLES
    op,             \* the operation that ran last ("none" before any)
    crop_type,      \* crop identifier in force for that operation (a string)
    soil_moisture,  \* reading, in 1/MUnit percent
    temperature,    \* reading, in degrees
    humidity,       \* reading, in percent
    fperr,          \* float error direction at the exact decimal ties
    engine,         \* the long-lived DecisionEngine instance (field crop)
    ident,          \* history: identifier last given to that instance
    result,         \* analysis returned by the last operation, or NoResult
    memo,           \* history: one remembered earlier analysis call
    registry,       \* the module-level dict CROP_PROFILES
    created,        \* history: identifier the instance was constructed with
    procs,          \* the calls in progress, one record per thread
    http,           \* the last HTTP request and its response
    sensor_data,    \* rows of table sensor_data, in insertion order
    recommendations \* rows of table recommendations, in insertion order

vars == <<op, crop_type, soil_moisture, temperature, humidity, fperr,
          engine, ident, result, memo, registry, created, procs, http,
          sensor_data, recommendations>>

None == "None"

----------------------------------------------------------------------------
(* Strings are sequences of one-character strings, so that str.lower()     *)
(* is a computation and not the identity.                                  *)

UpperLetters == <<"A","B","C","D","E","F","G","H","I","J","K","L","M",
                  "N","O","P","Q","R","S","T","U","V","W","X","Y","Z">>
LowerLetters == <<"a","b","c","d","e","f","g","h","i","j","k","l","m",
                  "n","o","p","q","r","s","t","u","v","w","x","y","z">>

\* one character of str.lower(): an upper-case letter maps to its lower-case
\* letter, every other character is unchanged
LowerChar(c) ==
    IF \E i \in 1..26 : UpperLetters[i] = c
    THEN LowerLetters[CHOOSE i \in 1..26 : UpperLetters[i] = c]
    ELSE c

\* str.lower()
lower(s) == [i \in 1..Len(s) |-> LowerChar(s[i])]

\* registry keys
tomato   == <<"t","o","m","a","t","o">>
lettuce  == <<"l","e","t","t","u","c","e">>
wheat    == <<"w","h","e","a","t">>
corn     == <<"c","o","r","n">>
default  == <<"d","e","f","a","u","l","t">>

\* CropProfile(name, optimal_moisture, optimal_temp, optimal_humidity)
CropProfile(name, optimal_moisture, optimal_temp, optimal_humidity) ==
    [name |-> name,
     optimal_moisture |-> optimal_moisture,
     optimal_temp |-> optimal_temp,
     optimal_humidity |-> optimal_humidity]

CropKeys == {tomato, lettuce, wheat, corn, default}

CROP_PROFILES_low_tomato_max ==
    [k \in CropKeys |->
        CASE k = tomato  -> CropProfile("Tomato", <<60, 75>>, <<18, 27>>, <<60, 80>>)
          [] k = lettuce -> CropProfile("Lettuce", <<70, 85>>, <<15, 20>>, <<60, 75>>)
          [] k = wheat   -> CropProfile("Wheat", <<40, 60>>, <<15, 25>>, <<50, 70>>)
          [] k = corn    -> CropProfile("Corn", <<50, 70>>, <<20, 30>>, <<60, 80>>)
          [] k = default -> CropProfile("Default Crop", <<50, 75>>, <<18, 28>>, <<60, 80>>)]

CROP_PROFILES ==
    [k \in CropKeys |->
        CASE k = tomato  -> CropProfile("Tomato", <<60, 80>>, <<18, 27>>, <<60, 80>>)
          [] k = lettuce -> CropProfile("Lettuce", <<70, 85>>, <<15, 20>>, <<60, 75>>)
          [] k = wheat   -> CropProfile("Wheat", <<40, 60>>, <<15, 25>>, <<50, 70>>)
          [] k = corn    -> CropProfile("Corn", <<50, 70>>, <<20, 30>>, <<60, 80>>)
          [] k = default -> CropProfile("Default Crop", <<50, 75>>, <<18, 28>>, <<60, 80>>)]

\* dict.get(key, fallback)
DictGet(d, key, fallback) == IF key \in DOMAIN d THEN d[key] ELSE fallback

resolve_profile_exact_case(id) ==
    DictGet(registry, id, registry[default])

\* CROP_PROFILES.get(crop_type.lower(), CROP_PROFILES["default"])
resolve_profile(id) == DictGet(registry, lower(id), registry[default])

----------------------------------------------------------------------------
(* Bounds of the model and numeric helpers.                                *)

\* a moisture reading is a multiple of 1/(2*Fine) percent
Fine == 64

\* the largest number of rows of the sensor table the model follows
MaxRows == 2
MUnit == 2 * Fine

\* exact fractions <<numerator, denominator>>, denominator > 0
FracMul(x, y) == <<x[1] * y[1], x[2] * y[2]>>

\* round(x, 2) of a non-negative x, result in hundredths.  Away from a tie
\* it is the nearest hundredth; at an exact decimal tie the float the code
\* holds is off the tie by its representation error, in the direction fp.
round2(x, fp) ==
    LET n == 100 * x[1]
        q == n \div x[2]
        r == n % x[2]
    IN  IF 2 * r > x[2] THEN q + 1
        ELSE IF 2 * r < x[2] THEN q
        ELSE IF fp THEN q + 1 ELSE q

\* f"{soil_moisture:.1f}": the reading to one decimal, in tenths (correctly
\* rounded, ties to even)
fmt1(m) ==
    LET n == 10 * m
        q == n \div MUnit
        r == n % MUnit
    IN  IF 2 * r > MUnit THEN q + 1
        ELSE IF 2 * r < MUnit THEN q
        ELSE IF q % 2 = 1 THEN q + 1 ELSE q

\* a reasoning clause or alert message: its fixed text and the formatted
\* numbers it embeds
Clause(text, a, b, c) == <<text, a, b, c>>

----------------------------------------------------------------------------
(* DecisionEngine._evaluate_irrigation                                     *)

irrigation_needed_le(crop, m) == m <= crop.optimal_moisture[1] * MUnit

\* if soil_moisture < min_moisture
irrigation_needed(crop, m) == m < crop.optimal_moisture[1] * MUnit

irrigation_excess_wide(crop, m) ==
    10 * m > 15 * crop.optimal_moisture[2] * MUnit

\* elif soil_moisture > max_moisture
irrigation_excess(crop, m) == m > crop.optimal_moisture[2] * MUnit

base_amount_no_humidity(crop, m, t, h) ==
    LET base0 == <<crop.optimal_moisture[1] * MUnit - m, 2 * MUnit>>
        temp_excess == t - crop.optimal_temp[2]
    IN  IF t > crop.optimal_temp[2]
        THEN FracMul(base0, <<20 + temp_excess, 20>>)
        ELSE base0

\* base_amount of the water branch just before it is rounded, as an exact
\* fraction in l/m2
base_amount(crop, m, t, h) ==
    LET moisture_deficit == crop.optimal_moisture[1] * MUnit - m
        base0 == <<moisture_deficit, 2 * MUnit>>        \* deficit * 0.5
        temp_excess == t - crop.optimal_temp[2]
        \* base_amount *= 1 + temp_excess * 0.05
        base1 == IF t > crop.optimal_temp[2]
                 THEN FracMul(base0, <<20 + temp_excess, 20>>)
                 ELSE base0
        \* base_amount *= 1.2
        base2 == IF h < 50 THEN FracMul(base1, <<6, 5>>) ELSE base1
    IN  base2

\* reasoning_parts of the water branch
water_reasoning(crop, m, t, h) ==
    LET part0 == <<Clause("below optimal range", fmt1(m),
                          10 * crop.optimal_moisture[1],
                          10 * crop.optimal_moisture[2])>>
        part1 == IF t > crop.optimal_temp[2]
                 THEN Append(part0,
                             Clause("temperature above optimal", 10 * t,
                                    5 * (t - crop.optimal_temp[2]), 0))
                 ELSE part0
        part2 == IF h < 50
                 THEN Append(part1, Clause("low humidity", 10 * h, 20, 0))
                 ELSE part1
    IN  part2

evaluate_irrigation_no_else(crop, m, t, h, fp) ==
    IF irrigation_needed(crop, m) THEN
        [action |-> "water",
         amount |-> round2(base_amount(crop, m, t, h), fp),
         reasoning |-> water_reasoning(crop, m, t, h)]
    ELSE IF irrigation_excess(crop, m) THEN
        [action |-> "reduce",
         amount |-> 0,
         reasoning |-> <<Clause("above optimal range", fmt1(m),
                                10 * crop.optimal_moisture[1],
                                10 * crop.optimal_moisture[2]),
                         Clause("root rot and nutrient leaching", 0, 0, 0)>>]
    ELSE
        [action |-> None, amount |-> 0, reasoning |-> <<>>]

evaluate_irrigation(crop, m, t, h, fp) ==
    IF irrigation_needed(crop, m) THEN
        [action |-> "water",
         amount |-> round2(base_amount(crop, m, t, h), fp),
         reasoning |-> water_reasoning(crop, m, t, h)]
    ELSE IF irrigation_excess(crop, m) THEN
        [action |-> "reduce",
         amount |-> 0,
         reasoning |-> <<Clause("above optimal range", fmt1(m),
                                10 * crop.optimal_moisture[1],
                                10 * crop.optimal_moisture[2]),
                         Clause("root rot and nutrient leaching", 0, 0, 0)>>]
    ELSE
        [action |-> "no_action",
         amount |-> 0,
         reasoning |-> <<Clause("within optimal range", fmt1(m),
                                10 * crop.optimal_moisture[1],
                                10 * crop.optimal_moisture[2]),
                         Clause("No irrigation needed", 0, 0, 0)>>]

----------------------------------------------------------------------------
(* DecisionEngine._evaluate_fertilizer                                     *)

NPK == "NPK 10-10-10 (Balanced)"
MoistureTooLow == "too low for effective nutrient uptake"
IrrigateFirst == "Irrigate before applying fertilizer"
TemperatureTooLow == "too low for active nutrient uptake"
MonitorConditions == "Monitor conditions before fertilizing"

\* if soil_moisture < min_moisture * 0.7
fertilizer_too_dry(crop, m) == 10 * m < 7 * crop.optimal_moisture[1] * MUnit

fertilizer_too_cold_no_margin(crop, t) == t < crop.optimal_temp[1]

\* if temperature < temp_min - 5
fertilizer_too_cold(crop, t) == t < crop.optimal_temp[1] - 5

fertilizer_optimal_strict(crop, m, t) ==
    /\ crop.optimal_moisture[1] * MUnit < m
    /\ m < crop.optimal_moisture[2] * MUnit
    /\ crop.optimal_temp[1] < t
    /\ t < crop.optimal_temp[2]

\* if min_moisture <= soil_moisture <= max_moisture
\*    and temp_min <= temperature <= temp_max
fertilizer_optimal(crop, m, t) ==
    /\ crop.optimal_moisture[1] * MUnit <= m
    /\ m <= crop.optimal_moisture[2] * MUnit
    /\ crop.optimal_temp[1] <= t
    /\ t <= crop.optimal_temp[2]

fertilizer_no_action(parts) ==
    [action |-> "no_action", type |-> None, reasoning |-> parts]

evaluate_fertilizer_cold_first(crop, m, t) ==
    IF fertilizer_too_cold(crop, t) THEN
        fertilizer_no_action(<<Clause(TemperatureTooLow, 10 * t, 0, 0)>>)
    ELSE IF fertilizer_too_dry(crop, m) THEN
        fertilizer_no_action(<<Clause(MoistureTooLow, fmt1(m), 0, 0),
                               Clause(IrrigateFirst, 0, 0, 0)>>)
    ELSE IF fertilizer_optimal(crop, m, t) THEN
        [action |-> "apply",
         type |-> NPK,
         reasoning |-> <<Clause("Conditions are optimal", fmt1(m), 10 * t, 0),
                         Clause("Balanced NPK (10-10-10) recommended", 0, 0, 0)>>]
    ELSE
        fertilizer_no_action(<<Clause(MonitorConditions, 0, 0, 0)>>)

evaluate_fertilizer(crop, m, t) ==
    IF fertilizer_too_dry(crop, m) THEN
        fertilizer_no_action(<<Clause(MoistureTooLow, fmt1(m), 0, 0),
                               Clause(IrrigateFirst, 0, 0, 0)>>)
    ELSE IF fertilizer_too_cold(crop, t) THEN
        fertilizer_no_action(<<Clause(TemperatureTooLow, 10 * t, 0, 0)>>)
    ELSE IF fertilizer_optimal(crop, m, t) THEN
        [action |-> "apply",
         type |-> NPK,
         reasoning |-> <<Clause("Conditions are optimal", fmt1(m), 10 * t, 0),
                         Clause("Balanced NPK (10-10-10) recommended", 0, 0, 0)>>]
    ELSE
        fertilizer_no_action(<<Clause(MonitorConditions, 0, 0, 0)>>)

----------------------------------------------------------------------------
(* DecisionEngine._evaluate_alerts: four groups of assignments to the      *)
(* locals alerts and alert_level, in program order.  Each group maps the   *)
(* locals s = [alerts, alert_level] before it to the locals after it.      *)

SevereDrought   == "CRITICAL: Severe drought risk"
DroughtWarning  == "WARNING: Drought risk detected"
OverwaterCrit   == "CRITICAL: Overwatering detected"
OverwaterWarn   == "WARNING: Soil moisture is above optimal"
HeatStress      == "WARNING: High temperature stress"
ColdStress      == "WARNING: Low temperature may slow growth"
CombinedStress  == "CRITICAL: Multiple stress factors detected"

\* alerts.append(message); alert_level = level
alert_set(s, message, level) ==
    [alerts |-> Append(s.alerts, message), alert_level |-> level]

alert_warn_unguarded(s, message) ==
    [alerts |-> Append(s.alerts, message), alert_level |-> "warning"]

\* alerts.append(message); if alert_level == "none": alert_level = "warning"
alert_warn(s, message) ==
    [alerts |-> Append(s.alerts, message),
     alert_level |-> IF s.alert_level = "none" THEN "warning"
                     ELSE s.alert_level]

alerts_drought_warning_first(crop, m, s) ==
    IF 10 * m < 7 * crop.optimal_moisture[1] * MUnit THEN
        alert_set(s, Clause(DroughtWarning, fmt1(m), 0, 0), "warning")
    ELSE IF 2 * m < crop.optimal_moisture[1] * MUnit THEN
        alert_set(s, Clause(SevereDrought, fmt1(m), 0, 0), "critical")
    ELSE s

\* if soil_moisture < min_moisture * 0.5 ...
\* elif soil_moisture < min_moisture * 0.7 ...
alerts_drought(crop, m, s) ==
    IF 2 * m < crop.optimal_moisture[1] * MUnit THEN
        alert_set(s, Clause(SevereDrought, fmt1(m), 0, 0), "critical")
    ELSE IF 10 * m < 7 * crop.optimal_moisture[1] * MUnit THEN
        alert_set(s, Clause(DroughtWarning, fmt1(m), 0, 0), "warning")
    ELSE s

alerts_overwatering_ge(crop, m, s) ==
    IF 10 * m >= 13 * crop.optimal_moisture[2] * MUnit THEN
        alert_set(s, Clause(OverwaterCrit, fmt1(m), 0, 0), "critical")
    ELSE IF 10 * m >= 11 * crop.optimal_moisture[2] * MUnit THEN
        alert_warn(s, Clause(OverwaterWarn, fmt1(m), 0, 0))
    ELSE s

\* if soil_moisture > max_moisture * 1.3 ...
\* elif soil_moisture > max_moisture * 1.1 ...
alerts_overwatering(crop, m, s) ==
    IF 10 * m > 13 * crop.optimal_moisture[2] * MUnit THEN
        alert_set(s, Clause(OverwaterCrit, fmt1(m), 0, 0), "critical")
    ELSE IF 10 * m > 11 * crop.optimal_moisture[2] * MUnit THEN
        alert_warn(s, Clause(OverwaterWarn, fmt1(m), 0, 0))
    ELSE s

alerts_temperature_unguarded(crop, t, s) ==
    IF t > crop.optimal_temp[2] + 5 THEN
        alert_set(s, Clause(HeatStress, 10 * t, 0, 0), "warning")
    ELSE IF t < crop.optimal_temp[1] - 5 THEN
        alert_set(s, Clause(ColdStress, 10 * t, 0, 0), "warning")
    ELSE s

\* if temperature > temp_max + 5 ... elif temperature < temp_min - 5 ...
alerts_temperature(crop, t, s) ==
    IF t > crop.optimal_temp[2] + 5 THEN
        alert_warn(s, Clause(HeatStress, 10 * t, 0, 0))
    ELSE IF t < crop.optimal_temp[1] - 5 THEN
        alert_warn(s, Clause(ColdStress, 10 * t, 0, 0))
    ELSE s

alerts_combined_any_humidity(crop, m, t, h, s) ==
    IF m < crop.optimal_moisture[1] * MUnit /\ t > crop.optimal_temp[2] THEN
        alert_set(s, Clause(CombinedStress, 0, 0, 0), "critical")
    ELSE s

\* if soil_moisture < min_moisture and temperature > temp_max
\*    and humidity < 50
alerts_combined(crop, m, t, h, s) ==
    IF /\ m < crop.optimal_moisture[1] * MUnit
       /\ t > crop.optimal_temp[2]
       /\ h < 50
    THEN alert_set(s, Clause(CombinedStress, 0, 0, 0), "critical")
    ELSE s

evaluate_alerts_short_circuit(crop, m, t, h) ==
    LET s0 == [alerts |-> <<>>, alert_level |-> "none"]
        s1 == alerts_drought(crop, m, s0)
        s2 == alerts_overwatering(crop, m, s1)
        s3 == IF s2.alert_level = "critical" THEN s2
              ELSE alerts_temperature(crop, t, s2)
        s4 == IF s3.alert_level = "critical" THEN s3
              ELSE alerts_combined(crop, m, t, h, s3)
    IN  [level |-> s4.alert_level, messages |-> s4.alerts]

\* alerts = []; alert_level = "none"; the four groups in program order;
\* return {"level": alert_level, "messages": alerts}
evaluate_alerts(crop, m, t, h) ==
    LET s0 == [alerts |-> <<>>, alert_level |-> "none"]
        s1 == alerts_drought(crop, m, s0)
        s2 == alerts_overwatering(crop, m, s1)
        s3 == alerts_temperature(crop, t, s2)
        s4 == alerts_combined(crop, m, t, h, s3)
    IN  [level |-> s4.alert_level, messages |-> s4.alerts]

----------------------------------------------------------------------------
(* DecisionEngine.analyze_sensor_data on an engine whose self.crop is crop *)

analyze_sensor_data(crop, m, t, h, fp) ==
    [irrigation |-> evaluate_irrigation(crop, m, t, h, fp),
     fertilizer |-> evaluate_fertilizer(crop, m, t),
     alerts     |-> evaluate_alerts(crop, m, t, h)]

\* DecisionEngine.__init__: the new instance
DecisionEngine(id) == [crop |-> resolve_profile(id)]

get_recommendations_shared_engine(m, t, h, id, fp) ==
    analyze_sensor_data(engine.crop, m, t, h, fp)

\* get_recommendations: a fresh engine, then its analysis
get_recommendations(m, t, h, id, fp) ==
    analyze_sensor_data(DecisionEngine(id).crop, m, t, h, fp)

----------------------------------------------------------------------------
(* Input domains.  The request schema (SensorDataInput) admits             *)
(* soil_moisture in [0,100], temperature in [-20,60], humidity in [0,100]. *)

MoistureLo == 0
MoistureHi == 100
TemperatureLo == -20
TemperatureHi == 60
HumidityLo == 0
HumidityHi == 100

\* the moistures the rules of one profile compare a reading with:
\* min * 0.5, min * 0.7, min, max, max * 1.1, max * 1.3
MoistureMarks(crop) ==
    {(crop.optimal_moisture[1] * MUnit) \div 2,
     (7 * crop.optimal_moisture[1] * MUnit) \div 10,
     crop.optimal_moisture[1] * MUnit,
     crop.optimal_moisture[2] * MUnit,
     (11 * crop.optimal_moisture[2] * MUnit) \div 10,
     (13 * crop.optimal_moisture[2] * MUnit) \div 10}

\* every whole percent of the domain, and each mark of the profile with the
\* readings one step of the representation below and above it
MoistureGrid(crop) ==
    ({k * MUnit : k \in MoistureLo..MoistureHi}
     \cup UNION {{x - 1, x, x + 1} : x \in MoistureMarks(crop)})
    \cap ((MoistureLo * MUnit)..(MoistureHi * MUnit))

\* the temperatures the rules of one profile compare a reading with
TemperatureMarks(crop) ==
    {crop.optimal_temp[1] - 5, crop.optimal_temp[1],
     crop.optimal_temp[2], crop.optimal_temp[2] + 5}

\* whole degrees: each mark of the profile and its two neighbours, the two
\* ends of the domain, and the temperatures of the documented scenarios
TemperatureGrid(crop) ==
    (UNION {{x - 1, x, x + 1} : x \in TemperatureMarks(crop)}
     \cup {TemperatureLo, TemperatureHi, 20, 24, 35, 38})
    \cap (TemperatureLo..TemperatureHi)

\* whole percents on both sides of the low-humidity threshold
HumidityGrid == {30, 49, 50, 70} \cap (HumidityLo..HumidityHi)

\* TRUE when the exact irrigation amount of the input is a decimal tie
IsTie(crop, m, t, h) ==
    evaluate_irrigation(crop, m, t, h, TRUE).amount
        # evaluate_irrigation(crop, m, t, h, FALSE).amount

\* The float error at a tie is a fixed function of the input that the model
\* leaves open: f holds the directions seen so far.  FpChoices is the set of
\* directions the input can take given f, FpRecord is f with the direction
\* taken recorded.
FpKey(crop, m, t, h) == <<crop.name, m, t, h>>

FpChoices(f, crop, m, t, h) ==
    IF ~IsTie(crop, m, t, h) THEN {FALSE}
    ELSE IF FpKey(crop, m, t, h) \in DOMAIN f THEN {f[FpKey(crop, m, t, h)]}
    ELSE BOOLEAN

FpRecord(f, crop, m, t, h, fp) ==
    IF IsTie(crop, m, t, h) /\ FpKey(crop, m, t, h) \notin DOMAIN f
    THEN f @@ (FpKey(crop, m, t, h) :> fp)
    ELSE f

NoResult ==
    [irrigation |-> [action |-> None, amount |-> 0, reasoning |-> <<>>],
     fertilizer |-> [action |-> None, type |-> None, reasoning |-> <<>>],
     alerts     |-> [level |-> None, messages |-> <<>>]]

NoMemo ==
    [op |-> "none", crop_type |-> <<>>, soil_moisture |-> 0,
     temperature |-> 0, humidity |-> 0, result |-> NoResult]

\* no request handled yet
NoHttp ==
    [handler |-> "none", given |-> "omitted",
     crop_type |-> [none |-> FALSE, str |-> <<>>],
     soil_moisture |-> 0, temperature |-> 0, humidity |-> 0,
     status |-> 0, analysis |-> NoResult]

\* the state outside the engine and its caller: the registry as the module
\* defines it, no thread, no request, empty tables
InitRest ==
    /\ procs = <<>>
    /\ http = NoHttp
    /\ sensor_data = <<>>
    /\ recommendations = <<>>

----------------------------------------------------------------------------
(* SpecRules: one call of get_recommendations on every profile of the      *)
(* registry and every reading of the grid.                                 *)

InitRules ==
    /\ registry = CROP_PROFILES
    /\ op = "none"
    /\ crop_type \in CropKeys
    /\ soil_moisture \in MoistureGrid(resolve_profile(crop_type))
    /\ temperature \in TemperatureGrid(resolve_profile(crop_type))
    /\ humidity \in HumidityGrid
    /\ fperr = <<>>
    /\ engine = DecisionEngine(default)
    /\ ident = default
    /\ created = default
    /\ result = NoResult
    /\ memo = NoMemo
    /\ InitRest

\* the caller's get_recommendations(soil_moisture, temperature, humidity,
\* crop_type)
CallGetRecommendations ==
    /\ op = "none"
    /\ op' = "get_recommendations"
    /\ \E fp \in FpChoices(fperr, DecisionEngine(crop_type).crop,
                            soil_moisture, temperature, humidity) :
          /\ result' = get_recommendations(soil_moisture, temperature,
                                           humidity, crop_type, fp)
          /\ fperr' = FpRecord(fperr, DecisionEngine(crop_type).crop,
                               soil_moisture, temperature, humidity, fp)
    /\ UNCHANGED <<crop_type, soil_moisture, temperature, humidity,
                   engine, ident, memo, created>>
    /\ UNCHANGED <<registry, procs, http, sensor_data, recommendations>>

NextRules == CallGetRecommendations

SpecRules == InitRules /\ [][NextRules]_vars

----------------------------------------------------------------------------
(* Operations on the long-lived engine instance.                           *)

EngineInit_registering(id) ==
    /\ op' = "__init__"
    /\ crop_type' = id
    /\ engine' = DecisionEngine(id)
    /\ ident' = id
    /\ created' = id
    /\ result' = NoResult
    /\ registry' = IF lower(id) \in DOMAIN registry THEN registry
                   ELSE registry @@ (lower(id) :> registry[default])
    /\ UNCHANGED <<soil_moisture, temperature, humidity, fperr, memo>>
    /\ UNCHANGED <<procs, http, sensor_data, recommendations>>

\* engine = DecisionEngine(id)
EngineInit(id) ==
    /\ op' = "__init__"
    /\ crop_type' = id
    /\ engine' = DecisionEngine(id)
    /\ ident' = id
    /\ created' = id
    /\ result' = NoResult
    /\ UNCHANGED <<soil_moisture, temperature, humidity, fperr, memo>>
    /\ UNCHANGED <<registry, procs, http, sensor_data, recommendations>>

ChangeCropType_keeps_profile(id) ==
    /\ op' = "change_crop_type"
    /\ crop_type' = id
    /\ engine' = engine
    /\ ident' = id
    /\ result' = NoResult
    /\ UNCHANGED <<soil_moisture, temperature, humidity, fperr, memo,
                   created>>
    /\ UNCHANGED <<registry, procs, http, sensor_data, recommendations>>

\* engine.change_crop_type(id)
ChangeCropType(id) ==
    /\ op' = "change_crop_type"
    /\ crop_type' = id
    /\ engine' = [engine EXCEPT !.crop = resolve_profile(id)]
    /\ ident' = id
    /\ result' = NoResult
    /\ UNCHANGED <<soil_moisture, temperature, humidity, fperr, memo,
                   created>>
    /\ UNCHANGED <<registry, procs, http, sensor_data, recommendations>>

\* engine.analyze_sensor_data(m, t, h)
AnalyzeSensorData(m, t, h) ==
    /\ op' = "analyze_sensor_data"
    /\ crop_type' = ident
    /\ soil_moisture' = m
    /\ temperature' = t
    /\ humidity' = h
    /\ \E fp \in FpChoices(fperr, engine.crop, m, t, h) :
          /\ result' = analyze_sensor_data(engine.crop, m, t, h, fp)
          /\ fperr' = FpRecord(fperr, engine.crop, m, t, h, fp)
    /\ UNCHANGED <<engine, ident, memo, created>>
    /\ UNCHANGED <<registry, procs, http, sensor_data, recommendations>>

\* get_recommendations(m, t, h, id)
GetRecommendations(m, t, h, id) ==
    /\ op' = "get_recommendations"
    /\ crop_type' = id
    /\ soil_moisture' = m
    /\ temperature' = t
    /\ humidity' = h
    /\ \E fp \in FpChoices(fperr, DecisionEngine(id).crop, m, t, h) :
          /\ result' = get_recommendations(m, t, h, id, fp)
          /\ fperr' = FpRecord(fperr, DecisionEngine(id).crop, m, t, h, fp)
    /\ UNCHANGED <<engine, ident, memo, created>>
    /\ UNCHANGED <<registry, procs, http, sensor_data, recommendations>>

AnalysisOps == {"analyze_sensor_data", "get_recommendations"}

\* history: keep the analysis that just returned for later comparison
Remember ==
    /\ op \in AnalysisOps
    /\ memo' = [op |-> op, crop_type |-> crop_type,
                soil_moisture |-> soil_moisture, temperature |-> temperature,
                humidity |-> humidity, result |-> result]
    /\ UNCHANGED <<op, crop_type, soil_moisture, temperature, humidity,
                   fperr, engine, ident, result, created>>
    /\ UNCHANGED <<registry, procs, http, sensor_data, recommendations>>

----------------------------------------------------------------------------
(* SpecProfile: construction, then change_crop_type, over every            *)
(* letter-case spelling of the registry keys and a set of unknown          *)
(* identifiers.                                                            *)

UpperChar(c) ==
    IF \E i \in 1..26 : LowerLetters[i] = c
    THEN UpperLetters[CHOOSE i \in 1..26 : LowerLetters[i] = c]
    ELSE c

\* all spellings of s that differ from it in letter case only
CaseVariants(s) ==
    {[i \in 1..Len(s) |-> IF b[i] THEN UpperChar(s[i]) ELSE s[i]] :
        b \in [1..Len(s) -> BOOLEAN]}

rice == <<"r","i","c","e">>

UnknownNames ==
    {<<>>, rice, <<"c","o","r","n"," ">>, <<" ","c","o","r","n">>,
     <<"t","o","m","a","t","o","e","s">>, <<"d","e","f","a","u","l">>,
     <<"w","h","e","a","t","1">>, <<"N","o","n","e">>}

AllIdentifiers ==
    UNION {CaseVariants(k) : k \in CropKeys}
    \cup CaseVariants(rice) \cup UnknownNames

InitEngine ==
    /\ registry = CROP_PROFILES
    /\ op = "none"
    /\ crop_type = default
    /\ soil_moisture = 0
    /\ temperature = 0
    /\ humidity = 0
    /\ fperr = <<>>
    /\ engine = DecisionEngine(default)
    /\ ident = default
    /\ created = default
    /\ result = NoResult
    /\ memo = NoMemo
    /\ InitRest

\* the identifiers of the engines change_crop_type is then called on
ChangedEngines == {default, rice, <<"T","o","m","a","t","o">>}

\* an engine is constructed for any identifier; on the engines constructed
\* for ChangedEngines, change_crop_type is then called with any identifier
NextProfile ==
    \/ /\ op = "none"
       /\ \E id \in AllIdentifiers : EngineInit(id)
    \/ /\ op = "__init__"
       /\ created \in ChangedEngines
       /\ \E id \in AllIdentifiers : ChangeCropType(id)

SpecProfile == InitEngine /\ [][NextProfile]_vars

----------------------------------------------------------------------------
(* Spec: any sequence of operations on one engine instance and of          *)
(* get_recommendations calls, over a small set of inputs.                  *)

SmallIdentifiers == {<<"W","h","e","a","T">>, rice, default}

SmallMoisture == {40 * MUnit, 60 * MUnit}
SmallTemperature == {20, 38}
SmallHumidity == {30}

Init == InitEngine

Next ==
    \/ \E id \in SmallIdentifiers : EngineInit(id)
    \/ \E id \in SmallIdentifiers : ChangeCropType(id)
    \/ \E m \in SmallMoisture, t \in SmallTemperature, h \in SmallHumidity :
          AnalyzeSensorData(m, t, h)
    \/ \E m \in SmallMoisture, t \in SmallTemperature, h \in SmallHumidity,
          id \in SmallIdentifiers :
          GetRecommendations(m, t, h, id)
    \/ Remember

Spec == Init /\ [][Next]_vars

----------------------------------------------------------------------------
(* One call of get_recommendations as the statements a thread executes:    *)
(* the construction of the call's own engine, the three evaluations of     *)
(* analyze_sensor_data with the four groups of _evaluate_alerts one by     *)
(* one, and the return.  procs[p] holds the frame of the call thread p is  *)
(* in: its arguments, its local engine and its local intermediate values.  *)

NoCrop == CropProfile("", <<0, 0>>, <<0, 0>>, <<0, 0>>)

\* the frame of a thread that has not called yet
IdleProc ==
    [pc |-> "idle", crop_type |-> <<>>, soil_moisture |-> 0,
     temperature |-> 0, humidity |-> 0,
     engine |-> [crop |-> NoCrop],
     irrigation |-> NoResult.irrigation,
     fertilizer |-> NoResult.fertilizer,
     locals |-> [alerts |-> <<>>, alert_level |-> None],
     result |-> NoResult]

ProcFrame ==
    UNCHANGED <<op, crop_type, soil_moisture, temperature, humidity, engine,
                ident, result, memo, registry, created, http, sensor_data,
                recommendations>>

ProcCall_shared_engine(p, m, t, h, id) ==
    /\ procs[p].pc = "idle"
    /\ procs' = [q \in DOMAIN procs |->
                   IF q = p
                   THEN [procs[p] EXCEPT !.pc = "irrigation",
                                         !.crop_type = id,
                                         !.soil_moisture = m,
                                         !.temperature = t,
                                         !.humidity = h,
                                         !.engine = DecisionEngine(id)]
                   ELSE [procs[q] EXCEPT !.engine = DecisionEngine(id)]]
    /\ UNCHANGED fperr
    /\ ProcFrame

\* get_recommendations(m, t, h, id): engine = DecisionEngine(crop_type)
ProcCall(p, m, t, h, id) ==
    /\ procs[p].pc = "idle"
    /\ procs' = [procs EXCEPT ![p] =
                   [@ EXCEPT !.pc = "irrigation",
                             !.crop_type = id,
                             !.soil_moisture = m,
                             !.temperature = t,
                             !.humidity = h,
                             !.engine = DecisionEngine(id)]]
    /\ UNCHANGED fperr
    /\ ProcFrame

\* irrigation = self._evaluate_irrigation(soil_moisture, temperature,
\* humidity)
ProcIrrigation(p) ==
    LET f == procs[p]
    IN  /\ f.pc = "irrigation"
        /\ \E fp \in FpChoices(fperr, f.engine.crop, f.soil_moisture,
                                f.temperature, f.humidity) :
              /\ procs' = [procs EXCEPT ![p] =
                             [@ EXCEPT !.pc = "fertilizer",
                                       !.irrigation =
                                           evaluate_irrigation(f.engine.crop,
                                               f.soil_moisture, f.temperature,
                                               f.humidity, fp)]]
              /\ fperr' = FpRecord(fperr, f.engine.crop, f.soil_moisture,
                                   f.temperature, f.humidity, fp)
        /\ ProcFrame

\* fertilizer = self._evaluate_fertilizer(soil_moisture, temperature)
ProcFertilizer(p) ==
    LET f == procs[p]
    IN  /\ f.pc = "fertilizer"
        /\ procs' = [procs EXCEPT ![p] =
                       [@ EXCEPT !.pc = "alerts",
                                 !.fertilizer =
                                     evaluate_fertilizer(f.engine.crop,
                                         f.soil_moisture, f.temperature)]]
        /\ UNCHANGED fperr
        /\ ProcFrame

\* _evaluate_alerts: alerts = []; alert_level = "none"
ProcAlerts(p) ==
    /\ procs[p].pc = "alerts"
    /\ procs' = [procs EXCEPT ![p] =
                   [@ EXCEPT !.pc = "drought",
                             !.locals = [alerts |-> <<>>,
                                         alert_level |-> "none"]]]
    /\ UNCHANGED fperr
    /\ ProcFrame

\* _evaluate_alerts: the drought if/elif
ProcDrought(p) ==
    LET f == procs[p]
    IN  /\ f.pc = "drought"
        /\ procs' = [procs EXCEPT ![p] =
                       [@ EXCEPT !.pc = "overwatering",
                                 !.locals = alerts_drought(f.engine.crop,
                                                f.soil_moisture, f.locals)]]
        /\ UNCHANGED fperr
        /\ ProcFrame

\* _evaluate_alerts: the overwatering if/elif
ProcOverwatering(p) ==
    LET f == procs[p]
    IN  /\ f.pc = "overwatering"
        /\ procs' = [procs EXCEPT ![p] =
                       [@ EXCEPT !.pc = "temperature",
                                 !.locals = alerts_overwatering(f.engine.crop,
                                                f.soil_moisture, f.locals)]]
        /\ UNCHANGED fperr
        /\ ProcFrame

ProcTemperature_no_margin(p) ==
    LET f == procs[p]
        crop == f.engine.crop
        t == f.temperature
    IN  /\ f.pc = "temperature"
        /\ procs' = [procs EXCEPT ![p] =
                       [@ EXCEPT !.pc = "combined",
                                 !.locals =
                                     IF t > crop.optimal_temp[2] THEN
                                         alert_warn(f.locals,
                                             Clause(HeatStress, 10 * t, 0, 0))
                                     ELSE IF t < crop.optimal_temp[1] THEN
                                         alert_warn(f.locals,
                                             Clause(ColdStress, 10 * t, 0, 0))
                                     ELSE f.locals]]
        /\ UNCHANGED fperr
        /\ ProcFrame

\* _evaluate_alerts: the temperature if/elif
ProcTemperature(p) ==
    LET f == procs[p]
    IN  /\ f.pc = "temperature"
        /\ procs' = [procs EXCEPT ![p] =
                       [@ EXCEPT !.pc = "combined",
                                 !.locals = alerts_temperature(f.engine.crop,
                                                f.temperature, f.locals)]]
        /\ UNCHANGED fperr
        /\ ProcFrame

\* _evaluate_alerts: the combined-stress if
ProcCombined(p) ==
    LET f == procs[p]
    IN  /\ f.pc = "combined"
        /\ procs' = [procs EXCEPT ![p] =
                       [@ EXCEPT !.pc = "return",
                                 !.locals = alerts_combined(f.engine.crop,
                                                f.soil_moisture, f.temperature,
                                                f.humidity, f.locals)]]
        /\ UNCHANGED fperr
        /\ ProcFrame

\* return {"level": alert_level, "messages": alerts}, then
\* return {"irrigation": irrigation, "fertilizer": fertilizer,
\*         "alerts": alerts}
ProcReturn(p) ==
    LET f == procs[p]
    IN  /\ f.pc = "return"
        /\ procs' = [procs EXCEPT ![p] =
                       [@ EXCEPT !.pc = "done",
                                 !.result =
                                     [irrigation |-> f.irrigation,
                                      fertilizer |-> f.fertilizer,
                                      alerts |->
                                          [level |-> f.locals.alert_level,
                                           messages |-> f.locals.alerts]]]]
        /\ UNCHANGED fperr
        /\ ProcFrame

\* the statement after the call
ProcStep(p) ==
    \/ ProcIrrigation(p)
    \/ ProcFertilizer(p)
    \/ ProcAlerts(p)
    \/ ProcDrought(p)
    \/ ProcOverwatering(p)
    \/ ProcTemperature(p)
    \/ ProcCombined(p)
    \/ ProcReturn(p)

----------------------------------------------------------------------------
(* SpecSteps: one thread, one call, statement by statement, for every      *)
(* identifier of StepIdentifiers and every reading next to a threshold of  *)
(* the profile it resolves to or at an end of the domain.                  *)

StepIdentifiers ==
    CropKeys \cup {rice, <<>>, <<"W","h","e","a","T">>, <<"C","O","R","N">>}

StepMoisture(crop) ==
    (UNION {{x - 1, x, x + 1} : x \in MoistureMarks(crop)}
     \cup {MoistureLo * MUnit, MoistureHi * MUnit})
    \cap ((MoistureLo * MUnit)..(MoistureHi * MUnit))

StepTemperature(crop) ==
    (UNION {{x - 1, x, x + 1} : x \in TemperatureMarks(crop)}
     \cup {TemperatureLo, TemperatureHi})
    \cap (TemperatureLo..TemperatureHi)

StepHumidity == {HumidityLo, 49, 50, HumidityHi}

InitProcs(threads) ==
    /\ registry = CROP_PROFILES
    /\ op = "none"
    /\ crop_type = default
    /\ soil_moisture = 0
    /\ temperature = 0
    /\ humidity = 0
    /\ fperr = <<>>
    /\ engine = DecisionEngine(default)
    /\ ident = default
    /\ created = default
    /\ result = NoResult
    /\ memo = NoMemo
    /\ procs = [p \in threads |-> IdleProc]
    /\ http = NoHttp
    /\ sensor_data = <<>>
    /\ recommendations = <<>>

StepThreads == {1}

InitSteps == InitProcs(StepThreads)

\* the thread calls get_recommendations with an input of the grid
StepCall(p) ==
    /\ procs[p].pc = "idle"
    /\ \E id \in StepIdentifiers :
          \E m \in StepMoisture(resolve_profile(id)),
             t \in StepTemperature(resolve_profile(id)),
             h \in StepHumidity :
             ProcCall(p, m, t, h, id)

NextSteps == \E p \in StepThreads : StepCall(p) \/ ProcStep(p)

SpecSteps == InitSteps /\ [][NextSteps]_vars

----------------------------------------------------------------------------
(* SpecConc: two threads, each in one call of get_recommendations, their   *)
(* statements interleaved in every order.                                  *)

Threads == {1, 2}

ConcIdentifiers == {wheat, <<"C","o","r","n">>}
ConcMoisture == {20 * MUnit, 45 * MUnit}
ConcTemperature == {20, 38}
ConcHumidity == {30}

InitConc == InitProcs(Threads)

\* the thread calls get_recommendations with one of the small inputs
ConcCall(p) ==
    /\ procs[p].pc = "idle"
    /\ \E id \in ConcIdentifiers, m \in ConcMoisture,
          t \in ConcTemperature, h \in ConcHumidity :
          ProcCall(p, m, t, h, id)

NextConc == \E p \in Threads : ConcCall(p) \/ ProcStep(p)

SpecConc == InitConc /\ [][NextConc]_vars

----------------------------------------------------------------------------
(* The request handlers of src/backend.py.  A request body carries the     *)
(* three numbers and the crop_type field in one of three forms: omitted,   *)
(* null, or a string.  A handler runs from the validation of the body to   *)
(* its response; http holds the last request and its response, with the    *)
(* value of the handler's local analysis when it was assigned.             *)

\* crop_type: Optional[str] = Field("default"): the value of data.crop_type
\* for each form of the field; none is Python's None
SchemaCropType(given, str) ==
    IF given = "omitted" THEN [none |-> FALSE, str |-> default]
    ELSE IF given = "null" THEN [none |-> TRUE, str |-> <<>>]
    ELSE [none |-> FALSE, str |-> str]

SchemaValid_no_upper_bound(m, t, h) ==
    /\ MoistureLo * MUnit <= m
    /\ TemperatureLo <= t /\ t <= TemperatureHi
    /\ HumidityLo <= h /\ h <= HumidityHi

\* the ge/le constraints of SensorDataInput
SchemaValid(m, t, h) ==
    /\ MoistureLo * MUnit <= m /\ m <= MoistureHi * MUnit
    /\ TemperatureLo <= t /\ t <= TemperatureHi
    /\ HumidityLo <= h /\ h <= HumidityHi

\* crop_type.lower() in DecisionEngine.__init__ raises AttributeError on None
LowerRaises(ct) == ct.none

\* DatabaseManager.add_sensor_data: the table with the committed row
add_sensor_data(table, m, t, h) ==
    Append(table, [id |-> Len(table) + 1, soil_moisture |-> m,
                   temperature |-> t, humidity |-> h,
                   location |-> "Field-1"])

\* ' | '.join(messages) if messages else None
alert_message(messages) ==
    [none |-> messages = <<>>, joined |-> messages]

add_recommendation_own_id(table, sensor_data_id, analysis) ==
    Append(table,
           [id |-> Len(table) + 1,
            sensor_data_id |-> Len(table) + 1,
            irrigation_action |-> analysis.irrigation.action,
            irrigation_amount |-> analysis.irrigation.amount,
            irrigation_reasoning |-> analysis.irrigation.reasoning,
            fertilizer_action |-> analysis.fertilizer.action,
            fertilizer_type |-> analysis.fertilizer.type,
            fertilizer_reasoning |-> analysis.fertilizer.reasoning,
            alert_level |-> analysis.alerts.level,
            alert_message |-> alert_message(analysis.alerts.messages)])

\* recommendation_data, and DatabaseManager.add_recommendation: the table
\* with the committed row
add_recommendation(table, sensor_data_id, analysis) ==
    Append(table,
           [id |-> Len(table) + 1,
            sensor_data_id |-> sensor_data_id,
            irrigation_action |-> analysis.irrigation.action,
            irrigation_amount |-> analysis.irrigation.amount,
            irrigation_reasoning |-> analysis.irrigation.reasoning,
            fertilizer_action |-> analysis.fertilizer.action,
            fertilizer_type |-> analysis.fertilizer.type,
            fertilizer_reasoning |-> analysis.fertilizer.reasoning,
            alert_level |-> analysis.alerts.level,
            alert_message |-> alert_message(analysis.alerts.messages)])

Response(handler, given, m, t, h, status, analysis) ==
    [handler |-> handler, given |-> given,
     crop_type |-> SchemaCropType(given, <<>>),
     soil_moisture |-> m, temperature |-> t, humidity |-> h,
     status |-> status, analysis |-> analysis]

ApiFrame ==
    UNCHANGED <<op, crop_type, soil_moisture, temperature, humidity, engine,
                ident, result, memo, registry, created, procs>>

AnalyzeConditions_storing(given, str, m, t, h) ==
    LET data == SchemaCropType(given, str)
        answer(status, analysis) ==
            [Response("analyze_conditions", given, m, t, h, status, analysis)
                EXCEPT !.crop_type = data]
    IN  /\ Len(sensor_data) < MaxRows
        /\ IF ~SchemaValid(m, t, h) THEN
               /\ http' = answer(422, NoResult)
               /\ UNCHANGED <<fperr, sensor_data>>
           ELSE IF LowerRaises(data) THEN
               /\ sensor_data' = add_sensor_data(sensor_data, m, t, h)
               /\ http' = answer(500, NoResult)
               /\ UNCHANGED fperr
           ELSE
               \E fp \in FpChoices(fperr, DecisionEngine(data.str).crop,
                                   m, t, h) :
                  /\ sensor_data' = add_sensor_data(sensor_data, m, t, h)
                  /\ http' = answer(200,
                                 get_recommendations(m, t, h, data.str, fp))
                  /\ fperr' = FpRecord(fperr, DecisionEngine(data.str).crop,
                                       m, t, h, fp)
        /\ UNCHANGED recommendations
        /\ ApiFrame

\* POST /api/analyze
AnalyzeConditions(given, str, m, t, h) ==
    LET data == SchemaCropType(given, str)
        answer(status, analysis) ==
            [Response("analyze_conditions", given, m, t, h, status, analysis)
                EXCEPT !.crop_type = data]
    IN  /\ IF ~SchemaValid(m, t, h) THEN
               /\ http' = answer(422, NoResult)
               /\ UNCHANGED fperr
           ELSE IF LowerRaises(data) THEN
               /\ http' = answer(500, NoResult)
               /\ UNCHANGED fperr
           ELSE
               \E fp \in FpChoices(fperr, DecisionEngine(data.str).crop,
                                   m, t, h) :
                  /\ http' = answer(200,
                                 get_recommendations(m, t, h, data.str, fp))
                  /\ fperr' = FpRecord(fperr, DecisionEngine(data.str).crop,
                                       m, t, h, fp)
        /\ UNCHANGED <<sensor_data, recommendations>>
        /\ ApiFrame

\* POST /api/sensor-data
SubmitSensorData(given, str, m, t, h) ==
    LET data == SchemaCropType(given, str)
        answer(status, analysis) ==
            [Response("submit_sensor_data", given, m, t, h, status, analysis)
                EXCEPT !.crop_type = data]
    IN  /\ Len(sensor_data) < MaxRows
        /\ IF ~SchemaValid(m, t, h) THEN
               /\ http' = answer(422, NoResult)
               /\ UNCHANGED <<fperr, sensor_data, recommendations>>
           ELSE IF LowerRaises(data) THEN
               /\ sensor_data' = add_sensor_data(sensor_data, m, t, h)
               /\ http' = answer(500, NoResult)
               /\ UNCHANGED <<fperr, recommendations>>
           ELSE
               \E fp \in FpChoices(fperr, DecisionEngine(data.str).crop,
                                   m, t, h) :
                  LET analysis == get_recommendations(m, t, h, data.str, fp)
                  IN  /\ sensor_data' = add_sensor_data(sensor_data, m, t, h)
                      /\ recommendations' =
                            add_recommendation(recommendations,
                                Len(sensor_data) + 1, analysis)
                      /\ http' = answer(200, analysis)
                      /\ fperr' = FpRecord(fperr,
                                      DecisionEngine(data.str).crop,
                                      m, t, h, fp)
        /\ ApiFrame

----------------------------------------------------------------------------
(* SpecApi: any sequence of requests to the two handlers, until the        *)
(* sensor table holds MaxRows rows.                                        *)

ApiGiven == {"omitted", "null", "str"}
ApiIdentifiers == {default, wheat}
ApiMoisture == {MoistureLo * MUnit - 1, 30 * MUnit, 101 * MUnit}
ApiTemperature == {TemperatureLo - 1, 20}
ApiHumidity == {30, HumidityHi + 1}

InitApi == InitProcs({})

NextApi ==
    \E given \in ApiGiven, str \in ApiIdentifiers, m \in ApiMoisture,
       t \in ApiTemperature, h \in ApiHumidity :
        \/ AnalyzeConditions(given, str, m, t, h)
        \/ SubmitSensorData(given, str, m, t, h)

SpecApi == InitApi /\ [][NextApi]_vars

----------------------------------------------------------------------------
(* submit_sensor_data as the statements a request thread executes (the     *)
(* framework runs each request of the handler in a worker thread): the     *)
(* validation of the body, db.add_sensor_data, get_recommendations,        *)
(* db.add_recommendation, the return.  Each db call commits in a session   *)
(* of its own.  procs[p] holds the frame of the request thread p handles:  *)
(* data, and the locals sensor_record and recommendation_record by the id  *)
(* of the row (0 while unassigned), analysis, and the response status.     *)

IdleRequest ==
    [pc |-> "idle", given |-> "omitted",
     crop_type |-> [none |-> FALSE, str |-> <<>>],
     soil_moisture |-> 0, temperature |-> 0, humidity |-> 0,
     sensor_record |-> 0, analysis |-> NoResult,
     recommendation_record |-> 0, status |-> 0]

ReqFrame ==
    UNCHANGED <<op, crop_type, soil_moisture, temperature, humidity, engine,
                ident, result, memo, registry, created, http>>

\* the body is validated against SensorDataInput; an invalid one is
\* answered 422 before the handler runs
ReqReceive(p, given, str, m, t, h) ==
    /\ procs[p].pc = "idle"
    /\ procs' = [procs EXCEPT ![p] =
                   [@ EXCEPT !.pc = IF SchemaValid(m, t, h)
                                    THEN "add_sensor_data" ELSE "done",
                             !.status = IF SchemaValid(m, t, h)
                                        THEN 0 ELSE 422,
                             !.given = given,
                             !.crop_type = SchemaCropType(given, str),
                             !.soil_moisture = m,
                             !.temperature = t,
                             !.humidity = h]]
    /\ UNCHANGED <<fperr, sensor_data, recommendations>>
    /\ ReqFrame

\* sensor_record = db.add_sensor_data(...)
ReqAddSensorData(p) ==
    LET f == procs[p]
    IN  /\ f.pc = "add_sensor_data"
        /\ sensor_data' = add_sensor_data(sensor_data, f.soil_moisture,
                                          f.temperature, f.humidity)
        /\ procs' = [procs EXCEPT ![p] =
                       [@ EXCEPT !.pc = "get_recommendations",
                                 !.sensor_record = Len(sensor_data) + 1]]
        /\ UNCHANGED <<fperr, recommendations>>
        /\ ReqFrame

\* analysis = get_recommendations(...); an exception is answered 500 by
\* the except clause
ReqGetRecommendations(p) ==
    LET f == procs[p]
    IN  /\ f.pc = "get_recommendations"
        /\ IF LowerRaises(f.crop_type) THEN
               /\ procs' = [procs EXCEPT ![p] =
                              [@ EXCEPT !.pc = "done", !.status = 500]]
               /\ UNCHANGED fperr
           ELSE
               \E fp \in FpChoices(fperr,
                                   DecisionEngine(f.crop_type.str).crop,
                                   f.soil_moisture, f.temperature,
                                   f.humidity) :
                  /\ procs' = [procs EXCEPT ![p] =
                                 [@ EXCEPT !.pc = "add_recommendation",
                                           !.analysis =
                                               get_recommendations(
                                                   f.soil_moisture,
                                                   f.temperature, f.humidity,
                                                   f.crop_type.str, fp)]]
                  /\ fperr' = FpRecord(fperr,
                                  DecisionEngine(f.crop_type.str).crop,
                                  f.soil_moisture, f.temperature,
                                  f.humidity, fp)
        /\ UNCHANGED <<sensor_data, recommendations>>
        /\ ReqFrame

ReqAddRecommendation_latest_sensor(p) ==
    LET f == procs[p]
    IN  /\ f.pc = "add_recommendation"
        /\ recommendations' = add_recommendation(recommendations,
                                  Len(sensor_data), f.analysis)
        /\ procs' = [procs EXCEPT ![p] =
                       [@ EXCEPT !.pc = "return",
                                 !.recommendation_record =
                                     Len(recommendations) + 1]]
        /\ UNCHANGED <<fperr, sensor_data>>
        /\ ReqFrame

\* recommendation_data = {'sensor_data_id': sensor_record.id, ...};
\* recommendation_record = db.add_recommendation(recommendation_data)
ReqAddRecommendation(p) ==
    LET f == procs[p]
    IN  /\ f.pc = "add_recommendation"
        /\ recommendations' = add_recommendation(recommendations,
                                  f.sensor_record, f.analysis)
        /\ procs' = [procs EXCEPT ![p] =
                       [@ EXCEPT !.pc = "return",
                                 !.recommendation_record =
                                     Len(recommendations) + 1]]
        /\ UNCHANGED <<fperr, sensor_data>>
        /\ ReqFrame

\* return {"success": True, "sensor_data": ..., "recommendations": ...}
ReqReturn(p) ==
    /\ procs[p].pc = "return"
    /\ procs' = [procs EXCEPT ![p] = [@ EXCEPT !.pc = "done", !.status = 200]]
    /\ UNCHANGED <<fperr, sensor_data, recommendations>>
    /\ ReqFrame

----------------------------------------------------------------------------
(* SpecSubmit: three request threads, one submit_sensor_data request each, *)
(* their statements interleaved in every order.                            *)

SubmitThreads == {1, 2, 3}

SubmitGiven == {"omitted", "null", "str"}
SubmitMoisture == {30 * MUnit, 101 * MUnit}

InitSubmit ==
    /\ registry = CROP_PROFILES
    /\ op = "none"
    /\ crop_type = default
    /\ soil_moisture = 0
    /\ temperature = 0
    /\ humidity = 0
    /\ fperr = <<>>
    /\ engine = DecisionEngine(default)
    /\ ident = default
    /\ created = default
    /\ result = NoResult
    /\ memo = NoMemo
    /\ procs = [p \in SubmitThreads |-> IdleRequest]
    /\ http = NoHttp
    /\ sensor_data = <<>>
    /\ recommendations = <<>>

NextSubmit ==
    \E p \in SubmitThreads :
        \/ \E given \in SubmitGiven, m \in SubmitMoisture :
              ReqReceive(p, given, wheat, m, 20, 30)
        \/ ReqAddSensorData(p)
        \/ ReqGetRecommendations(p)
        \/ ReqAddRecommendation(p)
        \/ ReqReturn(p)

SpecSubmit == InitSubmit /\ [][NextSubmit]_vars

----------------------------------------------------------------------------
(* analyze_sensor_data on the long-lived engine instance as the statements *)
(* a thread executes, while other threads call change_crop_type on the     *)
(* same instance.  Each evaluation reads self.crop twice: optimal_moisture *)
(* when it starts and optimal_temp further down; nothing orders these      *)
(* reads against the assignment in change_crop_type, so each read sees     *)
(* the profile the instance holds at that moment.  procs[p] is the frame   *)
(* of the call; optimal_moisture is the local pair min_moisture,           *)
(* max_moisture of the evaluation in progress.                             *)

IdleAnalysis ==
    [pc |-> "idle", soil_moisture |-> 0, temperature |-> 0, humidity |-> 0,
     optimal_moisture |-> <<0, 0>>,
     irrigation |-> NoResult.irrigation,
     fertilizer |-> NoResult.fertilizer,
     alerts |-> NoResult.alerts,
     result |-> NoResult]

SharedFrame ==
    UNCHANGED <<op, crop_type, soil_moisture, temperature, humidity, engine,
                ident, result, memo, registry, created, http, sensor_data,
                recommendations>>

\* the profile an evaluation works with: the moisture range it read when
\* it started, the rest as the instance holds it now
SharedCrop(f) == [engine.crop EXCEPT !.optimal_moisture = f.optimal_moisture]

\* engine.analyze_sensor_data(m, t, h)
SharedCall(p, m, t, h) ==
    /\ procs[p].pc = "idle"
    /\ procs' = [procs EXCEPT ![p] =
                   [@ EXCEPT !.pc = "irrigation_read",
                             !.soil_moisture = m,
                             !.temperature = t,
                             !.humidity = h]]
    /\ UNCHANGED fperr
    /\ SharedFrame

\* min_moisture, max_moisture = self.crop.optimal_moisture, at the start
\* of _evaluate_irrigation, _evaluate_fertilizer and _evaluate_alerts
SharedRead(p) ==
    /\ procs[p].pc \in {"irrigation_read", "fertilizer_read", "alerts_read"}
    /\ procs' = [procs EXCEPT ![p] =
                   [@ EXCEPT !.pc = IF @ = "irrigation_read" THEN "irrigation"
                                    ELSE IF @ = "fertilizer_read"
                                    THEN "fertilizer" ELSE "alerts",
                             !.optimal_moisture =
                                 engine.crop.optimal_moisture]]
    /\ UNCHANGED fperr
    /\ SharedFrame

\* the rest of _evaluate_irrigation
SharedIrrigation(p) ==
    LET f == procs[p]
    IN  /\ f.pc = "irrigation"
        /\ \E fp \in FpChoices(fperr, SharedCrop(f), f.soil_moisture,
                                f.temperature, f.humidity) :
              /\ procs' = [procs EXCEPT ![p] =
                             [@ EXCEPT !.pc = "fertilizer_read",
                                       !.irrigation =
                                           evaluate_irrigation(SharedCrop(f),
                                               f.soil_moisture, f.temperature,
                                               f.humidity, fp)]]
              /\ fperr' = FpRecord(fperr, SharedCrop(f), f.soil_moisture,
                                   f.temperature, f.humidity, fp)
        /\ SharedFrame

\* the rest of _evaluate_fertilizer
SharedFertilizer(p) ==
    LET f == procs[p]
    IN  /\ f.pc = "fertilizer"
        /\ procs' = [procs EXCEPT ![p] =
                       [@ EXCEPT !.pc = "alerts_read",
                                 !.fertilizer =
                                     evaluate_fertilizer(SharedCrop(f),
                                         f.soil_moisture, f.temperature)]]
        /\ UNCHANGED fperr
        /\ SharedFrame

\* the rest of _evaluate_alerts
SharedAlerts(p) ==
    LET f == procs[p]
    IN  /\ f.pc = "alerts"
        /\ procs' = [procs EXCEPT ![p] =
                       [@ EXCEPT !.pc = "return",
                                 !.alerts =
                                     evaluate_alerts(SharedCrop(f),
                                         f.soil_moisture, f.temperature,
                                         f.humidity)]]
        /\ UNCHANGED fperr
        /\ SharedFrame

\* return {"irrigation": irrigation, "fertilizer": fertilizer,
\*         "alerts": alerts}
SharedReturn(p) ==
    LET f == procs[p]
    IN  /\ f.pc = "return"
        /\ procs' = [procs EXCEPT ![p] =
                       [@ EXCEPT !.pc = "done",
                                 !.result = [irrigation |-> f.irrigation,
                                             fertilizer |-> f.fertilizer,
                                             alerts |-> f.alerts]]]
        /\ UNCHANGED fperr
        /\ SharedFrame

----------------------------------------------------------------------------
(* SpecShared: one thread in one analyze_sensor_data call on the engine    *)
(* instance, change_crop_type called on the instance at any moment.        *)

SharedThreads == {1}

SharedIdentifiers == {wheat, corn}
SharedMoisture == {20 * MUnit, 45 * MUnit}
SharedTemperature == {20, 38}
SharedHumidity == {30}

InitShared ==
    /\ registry = CROP_PROFILES
    /\ op = "none"
    /\ crop_type = default
    /\ soil_moisture = 0
    /\ temperature = 0
    /\ humidity = 0
    /\ fperr = <<>>
    /\ engine = DecisionEngine(default)
    /\ ident = default
    /\ created = default
    /\ result = NoResult
    /\ memo = NoMemo
    /\ procs = [p \in SharedThreads |-> IdleAnalysis]
    /\ http = NoHttp
    /\ sensor_data = <<>>
    /\ recommendations = <<>>

NextShared ==
    \/ \E id \in SharedIdentifiers : ChangeCropType(id)
    \/ \E p \in SharedThreads :
          \/ \E m \in SharedMoisture, t \in SharedTemperature,
                h \in SharedHumidity : SharedCall(p, m, t, h)
          \/ SharedRead(p)
          \/ SharedIrrigation(p)
          \/ SharedFertilizer(p)
          \/ SharedAlerts(p)
          \/ SharedReturn(p)

SpecShared == InitShared /\ [][NextShared]_vars

----------------------------------------------------------------------------
(* Properties.  C1 is checked under SpecProfile; C2 to C9, C16, C20, C26   *)
(* and C27 under SpecRules; C10, C12 and C15 under Spec; C11 under         *)
(* SpecConc; C13, C17, C18 and C19 under SpecSteps; C14, C21 and C22 under *)
(* SpecApi; C23 and C24 under SpecSubmit; C25 under SpecShared.            *)

\* C1: after DecisionEngine(id) or change_crop_type(id) the selected
\* profile is the registry entry whose key spells id up to letter case, and
\* the default profile when no key does (the empty string included).
C1_ProfileResolution ==
    LET SameUpToCase(s, k) ==
            /\ Len(s) = Len(k)
            /\ \A i \in 1..Len(k) : s[i] = k[i] \/ s[i] = UpperChar(k[i])
        Known == {k \in CropKeys : SameUpToCase(crop_type, k)}
    IN  op \in {"__init__", "change_crop_type"} =>
            /\ Cardinality(Known) <= 1
            /\ \A k \in Known : engine.crop = CROP_PROFILES[k]
            /\ Known = {} => engine.crop = CROP_PROFILES[default]

\* a mixed-case spelling of a known name was resolved by change_crop_type
C1_Witness ==
    /\ op = "change_crop_type"
    /\ crop_type = <<"t","O","m","A","t","o">>
    /\ engine.crop.name = "Tomato"

\* C2: exactly one irrigation branch applies: water iff m < m_min, reduce
\* iff m > m_max, no_action iff m_min <= m <= m_max; the amount is 0 for
\* reduce and no_action.
C2_IrrigationBranches ==
    LET P == CROP_PROFILES[crop_type]
        m_min == P.optimal_moisture[1] * MUnit
        m_max == P.optimal_moisture[2] * MUnit
        irr == result.irrigation
    IN  op = "get_recommendations" =>
            /\ irr.action \in {"water", "reduce", "no_action"}
            /\ irr.action = "water" <=> soil_moisture < m_min
            /\ irr.action = "reduce" <=> soil_moisture > m_max
            /\ irr.action = "no_action" <=>
                  (m_min <= soil_moisture /\ soil_moisture <= m_max)
            /\ irr.action \in {"reduce", "no_action"} => irr.amount = 0

\* a reading exactly on min_moisture was analysed: no irrigation
C2_Witness ==
    /\ op = "get_recommendations"
    /\ soil_moisture = CROP_PROFILES[crop_type].optimal_moisture[1] * MUnit
    /\ result.irrigation.action = "no_action"
    /\ result.irrigation.amount = 0

\* C3: for m < m_min the amount is (m_min - m) * 0.5, times
\* 1 + (t - t_max) * 0.05 when t > t_max, times 1.2 when h < 50, rounded to
\* 2 decimals (it is within half a hundredth of that product), and the
\* three documented scenarios give 5.0, 7.5 and 6.0.
C3_IrrigationAmount ==
    LET P == CROP_PROFILES[crop_type]
        m_min == P.optimal_moisture[1] * MUnit
        t_max == P.optimal_temp[2]
        \* the product as the fraction N / D
        N0 == m_min - soil_moisture
        D0 == 2 * MUnit
        N1 == IF temperature > t_max THEN N0 * (20 + temperature - t_max)
              ELSE N0
        D1 == IF temperature > t_max THEN D0 * 20 ELSE D0
        N == IF humidity < 50 THEN N1 * 6 ELSE N1
        D == IF humidity < 50 THEN D1 * 5 ELSE D1
        a == result.irrigation.amount
        Scenario(m, t, h, amount) ==
            (/\ crop_type = default
             /\ soil_moisture = m * MUnit
             /\ temperature = t
             /\ humidity = h) => a = amount
    IN  (op = "get_recommendations" /\ soil_moisture < m_min) =>
            /\ 2 * (a * D - 100 * N) <= D
            /\ 2 * (100 * N - a * D) <= D
            /\ Scenario(40, 20, 70, 500)
            /\ Scenario(40, 38, 70, 750)
            /\ Scenario(40, 20, 30, 600)

\* the temperature scenario was analysed: 7.5 l/m2
C3_Witness ==
    /\ op = "get_recommendations"
    /\ crop_type = default
    /\ soil_moisture = 40 * MUnit
    /\ temperature = 38
    /\ humidity = 70
    /\ result.irrigation.amount = 750

\* C4: for m < m_min the rounded amount is strictly positive, and it does
\* not decrease as m decreases: for m1 < m2 < m_min at the same t and h,
\* amount(m1) >= amount(m2).
C4_PositiveMonotoneAmount ==
    LET P == CROP_PROFILES[crop_type]
        m_min == P.optimal_moisture[1] * MUnit
    IN  (op = "get_recommendations" /\ soil_moisture < m_min) =>
            /\ result.irrigation.amount > 0
            /\ \A m2 \in MoistureGrid(P), fp \in BOOLEAN :
                  (soil_moisture < m2 /\ m2 < m_min) =>
                      result.irrigation.amount >=
                          evaluate_irrigation(P, m2, temperature, humidity,
                                              fp).amount

\* C5: fertilizer action = apply iff m_min <= m <= m_max and
\* t_min <= t <= t_max; the type is the balanced NPK label exactly when the
\* action is apply and None when it is no_action.
C5_FertilizerApply ==
    LET P == CROP_PROFILES[crop_type]
        in_range ==
            /\ P.optimal_moisture[1] * MUnit <= soil_moisture
            /\ soil_moisture <= P.optimal_moisture[2] * MUnit
            /\ P.optimal_temp[1] <= temperature
            /\ temperature <= P.optimal_temp[2]
        fert == result.fertilizer
    IN  op = "get_recommendations" =>
            /\ fert.action \in {"apply", "no_action"}
            /\ fert.action = "apply" <=> in_range
            /\ fert.type = "NPK 10-10-10 (Balanced)" <=> fert.action = "apply"
            /\ fert.action = "no_action" => fert.type = None

\* a reading on the upper moisture bound and the lower temperature bound
\* was analysed: apply
C5_Witness ==
    /\ op = "get_recommendations"
    /\ soil_moisture = CROP_PROFILES[crop_type].optimal_moisture[2] * MUnit
    /\ temperature = CROP_PROFILES[crop_type].optimal_temp[1]
    /\ result.fertilizer.action = "apply"
    /\ result.fertilizer.type = NPK

\* C6: whenever m < m_min * 0.7 the fertilizer result is no_action with the
\* moisture-too-low, irrigate-first reasoning, whatever the temperature;
\* the temperature-too-low reasoning is returned only when
\* m >= m_min * 0.7 and t < t_min - 5.
C6_FertilizerPrecedence ==
    LET P == CROP_PROFILES[crop_type]
        dry == 10 * soil_moisture < 7 * P.optimal_moisture[1] * MUnit
        cold == temperature < P.optimal_temp[1] - 5
        fert == result.fertilizer
        Texts == {fert.reasoning[i][1] : i \in 1..Len(fert.reasoning)}
    IN  op = "get_recommendations" =>
            /\ dry => /\ fert.action = "no_action"
                      /\ Len(fert.reasoning) = 2
                      /\ fert.reasoning[1][1] = MoistureTooLow
                      /\ fert.reasoning[2][1] = IrrigateFirst
            /\ TemperatureTooLow \in Texts => (~dry /\ cold)

\* a reading both too dry and too cold was analysed: the moisture reasoning
C6_Witness ==
    /\ op = "get_recommendations"
    /\ 10 * soil_moisture
          < 7 * CROP_PROFILES[crop_type].optimal_moisture[1] * MUnit
    /\ temperature < CROP_PROFILES[crop_type].optimal_temp[1] - 5
    /\ result.fertilizer.reasoning[2][1] = IrrigateFirst

\* C7: for every reading with m < m_min * 0.5 the final alert level is
\* critical and the first message is the severe-drought message, whatever
\* t and h are.
C7_CriticalDrought ==
    LET P == CROP_PROFILES[crop_type]
        al == result.alerts
    IN  (/\ op = "get_recommendations"
         /\ 2 * soil_moisture < P.optimal_moisture[1] * MUnit) =>
            /\ al.level = "critical"
            /\ Len(al.messages) >= 1
            /\ al.messages[1][1] = SevereDrought

\* a severe drought was analysed together with a cold-stress temperature
C7_Witness ==
    /\ op = "get_recommendations"
    /\ 2 * soil_moisture < CROP_PROFILES[crop_type].optimal_moisture[1] * MUnit
    /\ temperature < CROP_PROFILES[crop_type].optimal_temp[1] - 5
    /\ Len(result.alerts.messages) = 2
    /\ result.alerts.level = "critical"

\* C8: when m < m_min and t > t_max and h < 50 the final level is critical
\* and the combined-stress message is the last message; when one of the
\* three conditions is false the combined-stress message is absent.
C8_CombinedStress ==
    LET P == CROP_PROFILES[crop_type]
        stress ==
            /\ soil_moisture < P.optimal_moisture[1] * MUnit
            /\ temperature > P.optimal_temp[2]
            /\ humidity < 50
        al == result.alerts
        n == Len(al.messages)
    IN  op = "get_recommendations" =>
            /\ stress => /\ al.level = "critical"
                         /\ n >= 1
                         /\ al.messages[n][1] = CombinedStress
            /\ ~stress => \A i \in 1..n : al.messages[i][1] # CombinedStress

\* combined stress was analysed with no earlier alert branch taken
C8_Witness ==
    /\ op = "get_recommendations"
    /\ soil_moisture < CROP_PROFILES[crop_type].optimal_moisture[1] * MUnit
    /\ temperature > CROP_PROFILES[crop_type].optimal_temp[2]
    /\ humidity < 50
    /\ Len(result.alerts.messages) = 1
    /\ result.alerts.level = "critical"

\* C9: the final level is critical if a critical message (severe drought,
\* overwatering-critical, combined stress) is present, otherwise warning if
\* any message is present, otherwise none; level = none iff there is no
\* message.
C9_LevelIsWorstCondition ==
    LET al == result.alerts
        Texts == {al.messages[i][1] : i \in 1..Len(al.messages)}
        critical == Texts \cap {SevereDrought, OverwaterCrit, CombinedStress} # {}
    IN  op = "get_recommendations" =>
            /\ al.level = IF critical THEN "critical"
                          ELSE IF al.messages # <<>> THEN "warning"
                          ELSE "none"
            /\ al.level = "none" <=> al.messages = <<>>

\* critical overwatering was analysed together with a heat-stress
\* temperature: the later warning did not lower the level
C9_Witness ==
    /\ op = "get_recommendations"
    /\ Len(result.alerts.messages) = 2
    /\ result.alerts.messages[1][1] = OverwaterCrit
    /\ result.alerts.messages[2][1] = HeatStress
    /\ result.alerts.level = "critical"

\* C10: an analysis with the same soil_moisture, temperature, humidity and
\* crop identifier as a remembered earlier analysis returns the identical
\* result, whatever operations ran before or between the two.
C10_Determinism ==
    (/\ op \in AnalysisOps
     /\ memo.op \in AnalysisOps
     /\ memo.crop_type = crop_type
     /\ memo.soil_moisture = soil_moisture
     /\ memo.temperature = temperature
     /\ memo.humidity = humidity) => result = memo.result

\* get_recommendations repeated an analysis remembered earlier while the
\* long-lived engine was holding another crop
C10_Witness ==
    /\ op = "get_recommendations"
    /\ memo.op \in AnalysisOps
    /\ memo.crop_type = crop_type
    /\ memo.soil_moisture = soil_moisture
    /\ memo.temperature = temperature
    /\ memo.humidity = humidity
    /\ engine.crop # resolve_profile(crop_type)
    /\ result.irrigation.action = "water"

\* C12 as stated: an analysis on the engine returns the result for the
\* profile of the identifier the engine was created with, whatever
\* operations ran on it before, and no analysis call changes the engine's
\* field (it still holds the profile its constructor or change_crop_type
\* selected).
C12_StatelessEngine ==
    /\ op = "analyze_sensor_data" =>
          result \in {analyze_sensor_data(resolve_profile(created),
                          soil_moisture, temperature, humidity, fp) :
                      fp \in BOOLEAN}
    /\ engine.crop = resolve_profile(ident)

\* C12 as amended: an analysis on the engine returns the result for the
\* profile of the identifier last given to the engine, by its constructor
\* or by its latest change_crop_type, and no analysis call changes the
\* engine's field.
C12_LastSelectedProfile ==
    /\ op = "analyze_sensor_data" =>
          result \in {analyze_sensor_data(resolve_profile(ident),
                          soil_moisture, temperature, humidity, fp) :
                      fp \in BOOLEAN}
    /\ engine.crop = resolve_profile(ident)

\* an analysis ran on an engine whose crop was changed after construction
\* to one with another profile
C12_Witness ==
    /\ op = "analyze_sensor_data"
    /\ resolve_profile(created) # resolve_profile(ident)
    /\ result.irrigation.action = "no_action"
    /\ memo.op = "analyze_sensor_data"

\* C15: every registry profile has min <= max for its moisture, temperature
\* and humidity ranges, and no engine operation adds, removes or alters a
\* registry entry.
C15_RegistryInvariant ==
    /\ DOMAIN registry = {tomato, lettuce, wheat, corn, default}
    /\ registry = CROP_PROFILES
    /\ \A k \in DOMAIN registry :
          /\ registry[k].optimal_moisture[1] <= registry[k].optimal_moisture[2]
          /\ registry[k].optimal_temp[1] <= registry[k].optimal_temp[2]
          /\ registry[k].optimal_humidity[1] <= registry[k].optimal_humidity[2]

\* an engine was created for an unknown crop after an earlier analysis
C15_Witness ==
    /\ op = "__init__"
    /\ crop_type = rice
    /\ memo.op = "analyze_sensor_data"
    /\ Cardinality(DOMAIN registry) = 5

\* C16: the fertilizer result is no_action with the fixed reasoning
\* "Monitor conditions before fertilizing." iff m >= m_min * 0.7 and
\* t >= t_min - 5 and the reading is not inside both optimal bands; every
\* reading falls into exactly one of the four fertilizer outcomes.
C16_FertilizerFallthrough ==
    LET P == CROP_PROFILES[crop_type]
        adequate == 10 * soil_moisture >= 7 * P.optimal_moisture[1] * MUnit
        warm == temperature >= P.optimal_temp[1] - 5
        outside ==
            \/ soil_moisture < P.optimal_moisture[1] * MUnit
            \/ soil_moisture > P.optimal_moisture[2] * MUnit
            \/ temperature < P.optimal_temp[1]
            \/ temperature > P.optimal_temp[2]
        fert == result.fertilizer
        monitor ==
            /\ fert.action = "no_action"
            /\ fert.type = None
            /\ fert.reasoning = <<Clause(MonitorConditions, 0, 0, 0)>>
        outcome ==
            <<fert.action = "no_action" /\ Len(fert.reasoning) = 2
                  /\ fert.reasoning[1][1] = MoistureTooLow,
              fert.action = "no_action" /\ Len(fert.reasoning) = 1
                  /\ fert.reasoning[1][1] = TemperatureTooLow,
              fert.action = "apply" /\ fert.type = NPK,
              monitor>>
    IN  op = "get_recommendations" =>
            /\ monitor <=> (adequate /\ warm /\ outside)
            /\ Cardinality({i \in 1..4 : outcome[i]}) = 1

\* a reading with adequate moisture inside the band and a temperature
\* between t_min - 5 and t_min was analysed: the fallthrough
C16_Witness ==
    /\ op = "get_recommendations"
    /\ soil_moisture = CROP_PROFILES[crop_type].optimal_moisture[1] * MUnit
    /\ temperature = CROP_PROFILES[crop_type].optimal_temp[1] - 5
    /\ result.fertilizer.reasoning = <<Clause(MonitorConditions, 0, 0, 0)>>

\* C20: the alert messages accumulate without short-circuit and in fixed
\* order: the moisture message (drought or overwatering, at most one), then
\* the temperature message (heat or cold, at most one), then the
\* combined-stress message; each is present exactly when its own condition
\* holds, whatever level an earlier group set; hence at most 3 messages and
\* never a drought message together with an overwatering message.
C20_MessageOrder ==
    LET P == CROP_PROFILES[crop_type]
        msgs == result.alerts.messages
        Texts == {msgs[i][1] : i \in 1..Len(msgs)}
        Moisture == {SevereDrought, DroughtWarning, OverwaterCrit, OverwaterWarn}
        Temperature == {HeatStress, ColdStress}
        group(x) == IF x \in Moisture THEN 1
                    ELSE IF x \in Temperature THEN 2
                    ELSE IF x = CombinedStress THEN 3 ELSE 0
        moist == \/ 10 * soil_moisture < 7 * P.optimal_moisture[1] * MUnit
                 \/ 10 * soil_moisture > 11 * P.optimal_moisture[2] * MUnit
        temp == \/ temperature > P.optimal_temp[2] + 5
                \/ temperature < P.optimal_temp[1] - 5
        comb == /\ soil_moisture < P.optimal_moisture[1] * MUnit
                /\ temperature > P.optimal_temp[2]
                /\ humidity < 50
    IN  op = "get_recommendations" =>
            /\ Len(msgs) <= 3
            /\ \A i \in 1..Len(msgs) : group(msgs[i][1]) \in 1..3
            /\ \A i, j \in 1..Len(msgs) :
                  i < j => group(msgs[i][1]) < group(msgs[j][1])
            /\ (Texts \cap Moisture # {}) <=> moist
            /\ (Texts \cap Temperature # {}) <=> temp
            /\ (CombinedStress \in Texts) <=> comb
            /\ ~(/\ Texts \cap {SevereDrought, DroughtWarning} # {}
                 /\ Texts \cap {OverwaterCrit, OverwaterWarn} # {})

\* a severe drought in hot dry air was analysed: three messages, the two
\* after the critical one not suppressed
C20_Witness ==
    /\ op = "get_recommendations"
    /\ Len(result.alerts.messages) = 3
    /\ result.alerts.messages[1][1] = SevereDrought
    /\ result.alerts.messages[2][1] = HeatStress
    /\ result.alerts.messages[3][1] = CombinedStress

\* C11: with several get_recommendations calls running in parallel and
\* their statements interleaved in any order, every call works on the
\* engine it constructed for its own identifier and returns exactly the
\* result it returns when run alone on its own inputs.
C11_IndependentCalls ==
    \A p \in DOMAIN procs :
        LET f == procs[p]
        IN  /\ f.pc # "idle" => f.engine = DecisionEngine(f.crop_type)
            /\ f.pc = "done" =>
                  f.result \in {get_recommendations(f.soil_moisture,
                                    f.temperature, f.humidity, f.crop_type,
                                    fp) : fp \in BOOLEAN}

\* one call returned after another call, for a crop with another profile,
\* had constructed its engine and was still evaluating
C11_Witness ==
    /\ procs[1].pc = "done"
    /\ procs[2].pc = "temperature"
    /\ procs[1].engine.crop # procs[2].engine.crop
    /\ procs[1].result.irrigation.action = "water"
    /\ procs[2].locals.alert_level = "critical"

\* C13: for every reading of the domain and every identifier string the
\* lookup yields a profile of the registry, every statement of the analysis
\* can execute, and the result returned is complete: irrigation.action in
\* {water, reduce, no_action}, fertilizer.action in {apply, no_action},
\* alerts.level in {none, warning, critical}.
C13_Totality ==
    \A p \in DOMAIN procs :
        LET f == procs[p]
        IN  /\ f.pc # "idle" =>
                  /\ f.soil_moisture \in (MoistureLo * MUnit)..(MoistureHi * MUnit)
                  /\ f.temperature \in TemperatureLo..TemperatureHi
                  /\ f.humidity \in HumidityLo..HumidityHi
                  /\ \E k \in DOMAIN registry : f.engine.crop = registry[k]
            /\ f.pc \notin {"idle", "done"} => ENABLED ProcStep(p)
            /\ f.pc = "done" =>
                  /\ f.result.irrigation.action \in {"water", "reduce", "no_action"}
                  /\ f.result.irrigation.amount \in Nat
                  /\ f.result.irrigation.reasoning # <<>>
                  /\ f.result.fertilizer.action \in {"apply", "no_action"}
                  /\ f.result.fertilizer.reasoning # <<>>
                  /\ f.result.alerts.level \in {"none", "warning", "critical"}

\* the analysis returned for the empty identifier and a reading at three
\* ends of the domain
C13_Witness ==
    /\ procs[1].pc = "done"
    /\ procs[1].crop_type = <<>>
    /\ procs[1].soil_moisture = MoistureHi * MUnit
    /\ procs[1].temperature = TemperatureLo
    /\ procs[1].humidity = HumidityLo
    /\ procs[1].result.irrigation.action = "reduce"
    /\ procs[1].result.alerts.level = "critical"

\* C17: within one alert evaluation the level never decreases from one
\* group of assignments to the next (drought, overwatering, temperature,
\* combined stress), the level returned is the last one assigned, and the
\* drought-warning branch never executes on a level that is critical.
C17_LevelNeverDecreases ==
    [][\A p \in DOMAIN procs :
          LET rank(l) == IF l = "critical" THEN 2
                         ELSE IF l = "warning" THEN 1 ELSE 0
              before == procs[p].locals
              after == procs'[p].locals
          IN  /\ procs[p].pc \in {"drought", "overwatering", "temperature",
                                  "combined"} =>
                    rank(after.alert_level) >= rank(before.alert_level)
              /\ (/\ procs[p].pc = "drought"
                  /\ after.alerts # before.alerts
                  /\ after.alerts[Len(after.alerts)][1] = DroughtWarning) =>
                    before.alert_level # "critical"
              /\ procs[p].pc = "return" =>
                    procs'[p].result.alerts.level = before.alert_level]_vars

\* the temperature group ran on a level a severe drought had made critical
C17_Witness ==
    /\ procs[1].pc = "combined"
    /\ Len(procs[1].locals.alerts) = 2
    /\ procs[1].locals.alerts[1][1] = SevereDrought
    /\ procs[1].locals.alerts[2][1] = ColdStress
    /\ procs[1].locals.alert_level = "critical"

\* C18: the overwatering group appends the overwatering-critical message
\* and sets the level to critical when m > m_max * 1.3 (and the level
\* returned is then critical); appends the overwatering-warning message
\* when m_max * 1.1 < m <= m_max * 1.3, raising the level to warning only if
\* it was none; and changes nothing when m <= m_max * 1.1.
C18_Overwatering ==
    [][\A p \in DOMAIN procs :
          LET P == resolve_profile(procs[p].crop_type)
              m == procs[p].soil_moisture
              critical == 10 * m > 13 * P.optimal_moisture[2] * MUnit
              warning == /\ 10 * m > 11 * P.optimal_moisture[2] * MUnit
                         /\ 10 * m <= 13 * P.optimal_moisture[2] * MUnit
              before == procs[p].locals
              after == procs'[p].locals
          IN  /\ procs[p].pc = "overwatering" =>
                    /\ critical =>
                          /\ after.alerts =
                                Append(before.alerts,
                                       Clause(OverwaterCrit, fmt1(m), 0, 0))
                          /\ after.alert_level = "critical"
                    /\ warning =>
                          /\ after.alerts =
                                Append(before.alerts,
                                       Clause(OverwaterWarn, fmt1(m), 0, 0))
                          /\ after.alert_level =
                                IF before.alert_level = "none" THEN "warning"
                                ELSE before.alert_level
                    /\ (~critical /\ ~warning) => after = before
              /\ (procs[p].pc = "return" /\ critical) =>
                    procs'[p].result.alerts.level = "critical"]_vars

\* the overwatering group ran on a reading of exactly m_max * 1.3: the
\* warning message, the level raised from none to warning
C18_Witness ==
    /\ procs[1].pc = "temperature"
    /\ 10 * procs[1].soil_moisture
          = 13 * procs[1].engine.crop.optimal_moisture[2] * MUnit
    /\ Len(procs[1].locals.alerts) = 1
    /\ procs[1].locals.alerts[1][1] = OverwaterWarn
    /\ procs[1].locals.alert_level = "warning"

\* C19: the temperature group appends the heat-stress message when
\* t > t_max + 5 and the cold-stress message when t < t_min - 5, never
\* both; either one changes the level only from none to warning, leaving a
\* warning or critical level as it is; a temperature within
\* [t_min - 5, t_max + 5] changes nothing.
C19_TemperatureAlert ==
    [][\A p \in DOMAIN procs :
          LET P == resolve_profile(procs[p].crop_type)
              t == procs[p].temperature
              hot == t > P.optimal_temp[2] + 5
              cold == t < P.optimal_temp[1] - 5
              before == procs[p].locals
              after == procs'[p].locals
          IN  procs[p].pc = "temperature" =>
                /\ ~(hot /\ cold)
                /\ hot => after.alerts =
                              Append(before.alerts,
                                     Clause(HeatStress, 10 * t, 0, 0))
                /\ cold => after.alerts =
                               Append(before.alerts,
                                      Clause(ColdStress, 10 * t, 0, 0))
                /\ (hot \/ cold) =>
                      after.alert_level =
                          IF before.alert_level = "none" THEN "warning"
                          ELSE before.alert_level
                /\ (~hot /\ ~cold) => after = before]_vars

\* the temperature group added the heat-stress message to a level critical
\* overwatering had set, and left it critical
C19_Witness ==
    /\ procs[1].pc = "combined"
    /\ Len(procs[1].locals.alerts) = 2
    /\ procs[1].locals.alerts[1][1] = OverwaterCrit
    /\ procs[1].locals.alerts[2][1] = HeatStress
    /\ procs[1].locals.alert_level = "critical"

\* C14: a submit_sensor_data or analyze_conditions request with a valid
\* reading and no crop type (the field omitted or null) completes
\* successfully, analysed with the default profile exactly like a request
\* with crop_type = "default".
C14_OptionalCropType ==
    (/\ http.handler \in {"submit_sensor_data", "analyze_conditions"}
     /\ SchemaValid(http.soil_moisture, http.temperature, http.humidity)
     /\ http.given \in {"omitted", "null"}) =>
        /\ http.status = 200
        /\ http.analysis \in
              {get_recommendations(http.soil_moisture, http.temperature,
                                   http.humidity, default, fp) :
               fp \in BOOLEAN}

\* C21: the handlers run the decision engine, and submit_sensor_data writes
\* to the tables, only for requests with soil_moisture in [0,100],
\* temperature in [-20,60] and humidity in [0,100]; a request with a value
\* outside is answered as a client input error (422), without an analysis
\* and with both tables unchanged.
C21_ValidationFirst ==
    [][LET valid ==
               /\ MoistureLo * MUnit <= http'.soil_moisture
               /\ http'.soil_moisture <= MoistureHi * MUnit
               /\ TemperatureLo <= http'.temperature
               /\ http'.temperature <= TemperatureHi
               /\ HumidityLo <= http'.humidity
               /\ http'.humidity <= HumidityHi
       IN  /\ (http'.handler # "none" /\ ~valid) =>
                 /\ http'.status = 422
                 /\ http'.analysis = NoResult
                 /\ sensor_data' = sensor_data
                 /\ recommendations' = recommendations
           /\ (\/ http'.analysis # NoResult
               \/ sensor_data' # sensor_data
               \/ recommendations' # recommendations) => valid]_vars

\* an out-of-range reading was submitted after a reading had been stored:
\* rejected, the row still alone
C21_Witness ==
    /\ http.handler = "submit_sensor_data"
    /\ http.soil_moisture > MoistureHi * MUnit
    /\ http.status = 422
    /\ Len(sensor_data) = 1
    /\ Len(recommendations) = 1

\* C22: a call of analyze_conditions, successful or failed, leaves the
\* stored sensor readings and recommendations exactly as they were, and
\* the analysis it returns is the result of get_recommendations for the
\* same reading and crop type.
C22_AnalyzeStoresNothing ==
    [][http'.handler = "analyze_conditions" =>
          /\ sensor_data' = sensor_data
          /\ recommendations' = recommendations
          /\ http'.status = 200 =>
                /\ ~http'.crop_type.none
                /\ http'.analysis \in
                      {get_recommendations(http'.soil_moisture,
                           http'.temperature, http'.humidity,
                           http'.crop_type.str, fp) : fp \in BOOLEAN}
          /\ http'.status # 200 => http'.analysis = NoResult]_vars

\* an analysis for wheat was returned while one reading and one
\* recommendation were stored
C22_Witness ==
    /\ http.handler = "analyze_conditions"
    /\ http.status = 200
    /\ http.crop_type.str = wheat
    /\ http.analysis.irrigation.action = "water"
    /\ Len(sensor_data) = 1
    /\ Len(recommendations) = 1

\* C26: in every analysis result, fertilizer.action = apply implies
\* irrigation.action = no_action and alerts.level = none with no message;
\* alerts.level = critical implies irrigation.action is water or reduce and
\* fertilizer.action = no_action.
C26_CrossSection ==
    op = "get_recommendations" =>
        /\ result.fertilizer.action = "apply" =>
              /\ result.irrigation.action = "no_action"
              /\ result.alerts.level = "none"
              /\ result.alerts.messages = <<>>
        /\ result.alerts.level = "critical" =>
              /\ result.irrigation.action \in {"water", "reduce"}
              /\ result.fertilizer.action = "no_action"

\* a critically overwatered reading at an optimal temperature was analysed
C26_Witness ==
    /\ op = "get_recommendations"
    /\ result.alerts.level = "critical"
    /\ result.irrigation.action = "reduce"
    /\ result.fertilizer.action = "no_action"
    /\ temperature = CROP_PROFILES[crop_type].optimal_temp[1]
    /\ Len(result.alerts.messages) = 1

\* C27: for tomato and lettuce m_max * 1.3 exceeds 100, no reading of the
\* domain produces the overwatering-critical message and a critical level
\* comes from drought or combined stress only; for wheat, corn and default
\* a reading of the domain (soil_moisture = 100) produces it.
C27_OverwaterCriticalReach ==
    LET msgs == result.alerts.messages
        Texts == {msgs[i][1] : i \in 1..Len(msgs)}
        High == {tomato, lettuce}
        Low == {wheat, corn, default}
    IN  /\ \A k \in High :
              13 * registry[k].optimal_moisture[2] > 10 * MoistureHi
        /\ \A k \in Low :
              evaluate_alerts(registry[k], MoistureHi * MUnit,
                              registry[k].optimal_temp[1], 70).messages[1][1]
                  = OverwaterCrit
        /\ (op = "get_recommendations" /\ crop_type \in High) =>
              /\ OverwaterCrit \notin Texts
              /\ result.alerts.level = "critical" =>
                    Texts \cap {SevereDrought, CombinedStress} # {}
        /\ (/\ op = "get_recommendations"
            /\ crop_type \in Low
            /\ soil_moisture = MoistureHi * MUnit) => msgs[1][1] = OverwaterCrit

\* the wettest reading of the domain was analysed for tomato: the
\* overwatering warning only
C27_Witness ==
    /\ op = "get_recommendations"
    /\ crop_type = tomato
    /\ soil_moisture = MoistureHi * MUnit
    /\ result.alerts.messages[1][1] = OverwaterWarn
    /\ result.alerts.level = "warning"

\* C23: a submit_sensor_data request stores the sensor reading, then runs
\* the decision logic, then stores the recommendation, then returns; a
\* successful request has added exactly one sensor record, holding its
\* reading, and exactly one recommendation, whose sensor_data_id is the id
\* of that record and whose action, amount, type, reasoning and alert
\* level fields are the engine's output for its reading and crop type.
C23_SubmitOrder ==
    [][\A p \in DOMAIN procs :
          LET f == procs[p]
              g == procs'[p]
              Mine == {i \in 1..Len(sensor_data') :
                          sensor_data'[i].id = f.sensor_record}
              Recs == {i \in 1..Len(recommendations') :
                          recommendations'[i].sensor_data_id = f.sensor_record}
              Stored(r, a) ==
                  /\ r.irrigation_action = a.irrigation.action
                  /\ r.irrigation_amount = a.irrigation.amount
                  /\ r.irrigation_reasoning = a.irrigation.reasoning
                  /\ r.fertilizer_action = a.fertilizer.action
                  /\ r.fertilizer_type = a.fertilizer.type
                  /\ r.fertilizer_reasoning = a.fertilizer.reasoning
                  /\ r.alert_level = a.alerts.level
          IN  /\ (f.pc = "add_sensor_data" /\ g.pc # f.pc) =>
                    /\ f.analysis = NoResult
                    /\ f.recommendation_record = 0
                    /\ Len(sensor_data') = Len(sensor_data) + 1
                    /\ recommendations' = recommendations
                    /\ g.pc = "get_recommendations"
              /\ (f.pc = "get_recommendations" /\ g.pc # f.pc) =>
                    /\ f.sensor_record \in 1..Len(sensor_data)
                    /\ f.recommendation_record = 0
                    /\ sensor_data' = sensor_data
                    /\ recommendations' = recommendations
                    /\ g.pc \in {"add_recommendation", "done"}
              /\ (f.pc = "add_recommendation" /\ g.pc # f.pc) =>
                    /\ f.analysis # NoResult
                    /\ sensor_data' = sensor_data
                    /\ Len(recommendations') = Len(recommendations) + 1
                    /\ g.pc = "return"
              /\ (f.pc = "return" /\ g.pc # f.pc) =>
                    /\ g.pc = "done" /\ g.status = 200
                    /\ Cardinality(Mine) = 1
                    /\ \A i \in Mine :
                          /\ sensor_data'[i].soil_moisture = f.soil_moisture
                          /\ sensor_data'[i].temperature = f.temperature
                          /\ sensor_data'[i].humidity = f.humidity
                    /\ Cardinality(Recs) = 1
                    /\ \A i \in Recs :
                          /\ recommendations'[i].id = f.recommendation_record
                          /\ \E fp \in BOOLEAN :
                                Stored(recommendations'[i],
                                       get_recommendations(f.soil_moisture,
                                           f.temperature, f.humidity,
                                           f.crop_type.str, fp))
              /\ (g.status = 200 /\ f.status # 200) => f.pc = "return"]_vars

\* a request returned successfully after a request that had failed with
\* its sensor reading stored: record 2, recommendation 1
C23_Witness ==
    \E p \in DOMAIN procs :
        /\ procs[p].pc = "done"
        /\ procs[p].status = 200
        /\ procs[p].sensor_record = 2
        /\ procs[p].recommendation_record = 1
        /\ recommendations[1].sensor_data_id = 2
        /\ recommendations[1].irrigation_action = "water"

\* C24: under every interleaving of concurrent submit_sensor_data
\* requests, failed ones included, every stored recommendation's
\* sensor_data_id is the id of an existing sensor record created by the
\* same request, no two recommendations reference the same sensor record,
\* and there are never more recommendations than sensor records.
C24_ReferentialIntegrity ==
    /\ Len(recommendations) <= Len(sensor_data)
    /\ \A i \in 1..Len(recommendations) :
          LET r == recommendations[i]
          IN  /\ \E j \in 1..Len(sensor_data) :
                    sensor_data[j].id = r.sensor_data_id
              /\ \E p \in DOMAIN procs :
                    /\ procs[p].recommendation_record = r.id
                    /\ procs[p].sensor_record = r.sensor_data_id
    /\ \A i, j \in 1..Len(recommendations) :
          recommendations[i].sensor_data_id = recommendations[j].sensor_data_id
              => i = j
    /\ \A p, q \in DOMAIN procs :
          (procs[p].sensor_record # 0
           /\ procs[p].sensor_record = procs[q].sensor_record) => p = q

\* three requests interleaved: one failed after its reading was stored,
\* the other two stored their recommendations in the opposite order of
\* their readings
C24_Witness ==
    /\ Len(sensor_data) = 3
    /\ Len(recommendations) = 2
    /\ recommendations[1].sensor_data_id > recommendations[2].sensor_data_id
    /\ \E p \in DOMAIN procs :
          procs[p].status = 500 /\ procs[p].sensor_record # 0

\* C25: the irrigation, fertilizer and alert sections of the result of one
\* analyze_sensor_data call are all evaluated against the same crop
\* profile, also when another thread calls change_crop_type on the same
\* instance during the call: the result is the analysis of the reading for
\* one profile of the registry.
C25_OneProfilePerAnalysis ==
    \A p \in DOMAIN procs :
        procs[p].pc = "done" =>
            \E k \in DOMAIN registry, fp \in BOOLEAN :
                procs[p].result =
                    analyze_sensor_data(registry[k], procs[p].soil_moisture,
                        procs[p].temperature, procs[p].humidity, fp)

====
